---- MODULE Spec2Model ----
(***************************************************************************)
(* Vehicle-management API (FastAPI + SQLAlchemy): the credential store,    *)
(* the login endpoint, the bearer-token access guard in front of the five  *)
(* /veiculos handlers, and the manage_users command line tool.             *)
(*                                                                         *)
(* app/auth.py is imported by app/main.py but is not among the source      *)
(* files; the definitions that stand for it (the password hasher, the      *)
(* token issuer and validator, authenticate_user and the guard             *)
(* get_current_active_user) follow sections 4.1-4.5 of the specification.  *)
(*                                                                         *)
(* One API request is in flight at a time (the slot req); the command line *)
(* tool and the clock run concurrently with it, so a store change or a     *)
(* tick can fall between any two steps of a request.                       *)
(***************************************************************************)
EXTENDS Integers, Sequences, FiniteSets, TLC

VARIABLES
    users,      \* the usuarios table: rows [id, username, hashed_password]
    madeBy,     \* per username, what registered the row now in the table
    veiculos,   \* the veiculos table: rows keyed by id
    now,        \* the clock
    wallet,     \* the token of the client's latest successful login
    fate,       \* what happened to wallet's user since the token was issued
    req,        \* the API request in flight
    failLog,    \* the refused logins: why each was refused, and its response
    sessions    \* the database sessions: api, the one get_db gave the request
                \* in flight or the last one; cli, the one of the last run of
                \* manage_users, as main left it

vars == <<users, madeBy, veiculos, now, wallet, fate, req, failLog, sessions>>

(* ------------------------------ bounds --------------------------------- *)

MaxTime == 3
MaxId == 2
MaxVeiculoId == 1

Usernames == {"alice", "bob"}
Passwords == {"s3cret", "guess"}
Salts == {"saltA", "saltB"}
Times == 0..MaxTime

\* argparse leaves an option that was not given as None, which is falsy
NoArg == ""

Max(S) == CHOOSE m \in S : \A x \in S : x <= m

(* -------------------------- password hasher ---------------------------- *)

NoDigest == [scheme |-> "", salt |-> "", pw |-> ""]

\* crud.py: pwd_context = CryptContext(schemes=["bcrypt"], deprecated="auto")
crud_pwd_context_wrong_scheme == [schemes |-> <<"sha256_crypt">>]
crud_pwd_context == [schemes |-> <<"bcrypt">>]

\* the Password Hasher of app/auth.py (specification 4.1, 6: one hashing
\* algorithm for the service)
auth_pwd_context == [schemes |-> <<"bcrypt">>]

\* CryptContext.hash: the context's default (first) scheme, a fresh salt
CryptHash(ctx, password, salt) ==
    [scheme |-> Head(ctx.schemes), salt |-> salt, pw |-> password]

\* CryptContext.verify: false on a digest of another scheme or another password
CryptVerify(ctx, password, digest) ==
    /\ \E i \in 1..Len(ctx.schemes) : ctx.schemes[i] = digest.scheme
    /\ CryptHash([schemes |-> <<digest.scheme>>], password, digest.salt) = digest

get_password_hash(password, salt) == CryptHash(auth_pwd_context, password, salt)

verify_password(plain_password, hashed_password) ==
    CryptVerify(auth_pwd_context, plain_password, hashed_password)

(* --------------------------- credential store -------------------------- *)

NoUser == [id |-> 0, username |-> "", hashed_password |-> NoDigest]

\* models.Usuario: id = Column(Integer, primary_key=True): the next rowid
NextUsuarioId(db) == IF db = {} THEN 1 ELSE Max({u.id : u \in db}) + 1

\* models.Usuario: username = Column(String, unique=True, index=True)
UsernameUnique_off(db, username) == FALSE
UsernameUniqueViolation(db, username) == \E u \in db : u.username = username

\* db.add(db_usuario); db.commit(); db.refresh(db_usuario): the INSERT either
\* commits the row with its new id or raises IntegrityError and adds nothing
InsertUsuario(db, username, hashed_password) ==
    IF UsernameUniqueViolation(db, username)
    THEN [ok |-> FALSE, db |-> db, row |-> NoUser]
    ELSE LET row == [id |-> NextUsuarioId(db), username |-> username,
                     hashed_password |-> hashed_password]
         IN [ok |-> TRUE, db |-> db \cup {row}, row |-> row]

get_usuario_by_username(db, username) ==
    IF \E u \in db : u.username = username
    THEN CHOOSE u \in db : u.username = username
    ELSE NoUser

create_usuario(db, username, password, salt) ==
    InsertUsuario(db, username, CryptHash(crud_pwd_context, password, salt))

delete_usuario_keeps_row(db, usuario_id) == db
delete_usuario(db, usuario_id) == {u \in db : u.id # usuario_id}

(* ------------------------------- tokens -------------------------------- *)

\* auth.ACCESS_TOKEN_EXPIRE_MINUTES, in clock ticks
ACCESS_TOKEN_EXPIRE_MINUTES == 2

SECRET_KEY == "service-secret"
AttackerKey == "attacker-key"

NoClaims == [sub |-> "", iat |-> 0, exp |-> 0]
NoSig == [key |-> "", over |-> NoClaims]
NoToken == [parts |-> 0, claims |-> NoClaims, sig |-> NoSig]

\* a string that does not split into claims and signature
Garbage == [parts |-> 1, claims |-> NoClaims, sig |-> NoSig]

\* the MAC of the claims under a key: equal only for equal key and claims
Sign(key, claims) == [key |-> key, over |-> claims]

\* Token Issuer (specification 4.2): issue(subject, now) with lifetime expires_delta
create_access_token(sub, expires_delta, t) ==
    LET claims == [sub |-> sub, iat |-> t, exp |-> t + expires_delta]
    IN [parts |-> 3, claims |-> claims, sig |-> Sign(SECRET_KEY, claims)]

ValidateOk(sub) == [ok |-> TRUE, sub |-> sub, err |-> ""]
ValidateErr(kind) == [ok |-> FALSE, sub |-> "", err |-> kind]

\* Token Validator (specification 4.3): parse, then signature, then expiry
validate_skips_signature(token, t) ==
    IF token.parts # 3 THEN ValidateErr("Malformed")
    ELSE IF t >= token.claims.exp THEN ValidateErr("Expired")
    ELSE ValidateOk(token.claims.sub)

validate_expiry_first(token, t) ==
    IF token.parts # 3 THEN ValidateErr("Malformed")
    ELSE IF t >= token.claims.exp THEN ValidateErr("Expired")
    ELSE IF token.sig # Sign(SECRET_KEY, token.claims) THEN ValidateErr("BadSignature")
    ELSE ValidateOk(token.claims.sub)

validate(token, t) ==
    IF token.parts # 3 THEN ValidateErr("Malformed")
    ELSE IF token.sig # Sign(SECRET_KEY, token.claims) THEN ValidateErr("BadSignature")
    ELSE IF t >= token.claims.exp THEN ValidateErr("Expired")
    ELSE ValidateOk(token.claims.sub)

(* ------------------------- requests and responses ---------------------- *)

NoHeader == [scheme |-> "", token |-> NoToken]
NoBody == [username |-> "", password |-> ""]
NoResp == [status |-> 0, detail |-> "", www_authenticate |-> "",
           access_token |-> NoToken, token_type |-> ""]

Resp(status, detail) == [NoResp EXCEPT !.status = status, !.detail = detail]

IdleReq == [op |-> "", pc |-> "Idle", header |-> NoHeader, body |-> NoBody,
            sub |-> "", err |-> "", vcalls |-> 0, lookups |-> 0, resp |-> NoResp]

VehicleOps == {"listar_veiculos", "criar_veiculo", "obter_veiculo",
               "atualizar_status", "excluir_veiculo"}

\* the Depends(...) parameters of each path operation of main.py
Deps_login_for_access_token == {"get_db"}
Deps_criar_usuario == {"get_db"}
Deps_read_root == {}
Deps_listar_veiculos == {"get_db", "get_current_active_user"}
Deps_criar_veiculo_unguarded == {"get_db"}
Deps_criar_veiculo == {"get_db", "get_current_active_user"}
Deps_obter_veiculo == {"get_db", "get_current_active_user"}
Deps_atualizar_status == {"get_db", "get_current_active_user"}
Deps_excluir_veiculo_unguarded == {"get_db"}
Deps_excluir_veiculo == {"get_db", "get_current_active_user"}

Dependencies(op) ==
    CASE op = "login_for_access_token" -> Deps_login_for_access_token
      [] op = "criar_usuario" -> Deps_criar_usuario
      [] op = "read_root" -> Deps_read_root
      [] op = "listar_veiculos" -> Deps_listar_veiculos
      [] op = "criar_veiculo" -> Deps_criar_veiculo
      [] op = "obter_veiculo" -> Deps_obter_veiculo
      [] op = "atualizar_status" -> Deps_atualizar_status
      [] op = "excluir_veiculo" -> Deps_excluir_veiculo

\* FastAPI calls the path operation once every dependency has returned
HandlerReady(op) ==
    /\ req.op = op
    /\ req.pc = IF "get_current_active_user" \in Dependencies(op)
                THEN "Authorized" ELSE "Received"

(* ----------------------------- what a client sends --------------------- *)

Bearer(token) == [scheme |-> "Bearer", token |-> token]

\* a minted token with one claim changed and the signature kept
TamperedClaims(t) ==
    {[t EXCEPT !.claims.sub = s] : s \in Usernames \ {t.claims.sub}}
    \cup {[t EXCEPT !.claims.iat = i] : i \in Times \ {t.claims.iat}}
    \cup {[t EXCEPT !.claims.exp = e] :
             e \in (0..(MaxTime + ACCESS_TOKEN_EXPIRE_MINUTES)) \ {t.claims.exp}}

\* a token with text appended, and tokens signed with a key that is not the secret
TamperedSignature(t) ==
    {[t EXCEPT !.sig = NoSig]}
    \cup {[t EXCEPT !.claims.sub = s, !.sig = Sign(AttackerKey, [t.claims EXCEPT !.sub = s])] :
             s \in Usernames}

ClientHeaders ==
    {NoHeader, [scheme |-> "Basic", token |-> NoToken], Bearer(Garbage)}
    \cup (IF wallet = NoToken THEN {}
          ELSE {Bearer(t) : t \in {wallet} \cup TamperedClaims(wallet)
                                    \cup TamperedSignature(wallet)})

(* -------------------------------- login -------------------------------- *)

\* Authentication Flow (specification 4.4): the user, or nothing for an unknown
\* username and for a password the hasher does not verify
authenticate_user(db, username, password) ==
    LET user == get_usuario_by_username(db, username)
    IN IF user = NoUser THEN NoUser
       ELSE IF ~verify_password(password, user.hashed_password) THEN NoUser
       ELSE user

\* timedelta(minutes=auth.ACCESS_TOKEN_EXPIRE_MINUTES)
access_token_expires_short == ACCESS_TOKEN_EXPIRE_MINUTES - 1
access_token_expires == ACCESS_TOKEN_EXPIRE_MINUTES

InvalidCredentials ==
    [NoResp EXCEPT !.status = 401, !.detail = "Usuario ou senha incorretos",
                   !.www_authenticate = "Bearer"]

TokenResponse(sub, t) ==
    [NoResp EXCEPT !.status = 200,
                   !.access_token = create_access_token(sub, access_token_expires, t),
                   !.token_type = "bearer"]

\* a login that tells an unknown username from a wrong password
login_tells_unknown_user(db, username, password, t) ==
    LET user == authenticate_user(db, username, password)
    IN IF user = NoUser
       THEN IF get_usuario_by_username(db, username) = NoUser
            THEN [InvalidCredentials EXCEPT !.status = 404, !.detail = "Usuario nao encontrado"]
            ELSE InvalidCredentials
       ELSE TokenResponse(user.username, t)

\* a login that checks only that the username exists
login_skips_password(db, username, password, t) ==
    LET user == get_usuario_by_username(db, username)
    IN IF user = NoUser THEN InvalidCredentials
       ELSE TokenResponse(user.username, t)

login_for_access_token(db, username, password, t) ==
    LET user == authenticate_user(db, username, password)
    IN IF user = NoUser THEN InvalidCredentials
       ELSE TokenResponse(user.username, t)

\* why a login cannot succeed, read off the store and the password the user
\* registered with (kept for the properties; no code computes it)
LoginCause(db, username, password) ==
    IF ~\E u \in db : u.username = username THEN "absent"
    ELSE IF \E u \in db : u.username = username /\ u.hashed_password.pw # password
         THEN "wrong_password"
         ELSE "match"

(* --------------------------- database sessions ------------------------ *)

NoSessions == [api |-> "none", cli |-> "none"]

\* get_db up to its yield: db = SessionLocal(), for a path operation that
\* has Depends(get_db)
get_db_enter(op) ==
    IF "get_db" \in Dependencies(op) THEN [sessions EXCEPT !.api = "open"]
    ELSE sessions

\* get_db after its yield: finally: db.close(), however the request ended
get_db_exit ==
    IF sessions.api = "open" THEN [sessions EXCEPT !.api = "closed"] ELSE sessions

\* manage_users.main: db = database.SessionLocal() at line 15, db.close()
\* only at line 41; a return or an exception before it leaves db open
MainLeaves(reached_close) ==
    [sessions EXCEPT !.cli = IF reached_close THEN "closed" ELSE "open"]

(* ------------------------------- actions ------------------------------- *)

Init ==
    /\ users = {}
    /\ madeBy = [u \in Usernames |-> ""]
    /\ veiculos = {}
    /\ now = 0
    /\ wallet = NoToken
    /\ fate = "none"
    /\ req = IdleReq
    /\ failLog = {}
    /\ sessions = NoSessions

Tick ==
    /\ now < MaxTime
    /\ now' = now + 1
    /\ UNCHANGED <<users, madeBy, veiculos, wallet, fate, req, failLog, sessions>>

\* what becomes of the user the wallet's token names, after a store change
FateAfterInsert(username) ==
    IF wallet # NoToken /\ wallet.claims.sub = username /\ fate = "deleted"
    THEN "recreated" ELSE fate

FateAfterDelete(username) ==
    IF wallet # NoToken /\ wallet.claims.sub = username THEN "deleted" ELSE fate

NextVeiculoId == IF veiculos = {} THEN 1 ELSE Max({v.id : v \in veiculos}) + 1

\* a client calls one of the /veiculos path operations
NewVehicleRequest(ops, headers) ==
    /\ req.pc = "Idle"
    /\ \E op \in ops, h \in headers :
            /\ op = "criar_veiculo" => NextVeiculoId <= MaxVeiculoId
            /\ req' = [IdleReq EXCEPT !.op = op, !.pc = "Received", !.header = h]
            /\ sessions' = get_db_enter(op)
    /\ UNCHANGED <<users, madeBy, veiculos, now, wallet, fate, failLog>>

\* a client posts a username and a password to /token or to /usuarios/
NewFormRequest(ops, passwords) ==
    /\ req.pc = "Idle"
    /\ \E op \in ops, u \in Usernames, p \in passwords :
            /\ req' = [IdleReq EXCEPT !.op = op, !.pc = "Received",
                                      !.body = [username |-> u, password |-> p]]
            /\ sessions' = get_db_enter(op)
    /\ UNCHANGED <<users, madeBy, veiculos, now, wallet, fate, failLog>>

NewRootRequest ==
    /\ req.pc = "Idle"
    /\ req' = [IdleReq EXCEPT !.op = "read_root", !.pc = "Received"]
    /\ sessions' = get_db_enter("read_root")
    /\ UNCHANGED <<users, madeBy, veiculos, now, wallet, fate, failLog>>

\* the response has been sent and the request is over: the dependencies exit
Deliver ==
    /\ req.pc \in {"Done", "Rejected"}
    /\ req' = IdleReq
    /\ sessions' = get_db_exit
    /\ UNCHANGED <<users, madeBy, veiculos, now, wallet, fate, failLog>>

LoginHandler ==
    /\ HandlerReady("login_for_access_token")
    /\ LET resp == login_for_access_token(users, req.body.username, req.body.password, now)
           cause == LoginCause(users, req.body.username, req.body.password)
       IN /\ req' = [req EXCEPT !.pc = "Done", !.resp = resp]
          /\ failLog' = IF cause = "match" THEN failLog
                        ELSE failLog \cup {[cause |-> cause, resp |-> resp]}
          /\ IF resp.access_token # NoToken
             THEN wallet' = resp.access_token /\ fate' = "none"
             ELSE UNCHANGED <<wallet, fate>>
    /\ UNCHANGED <<users, madeBy, veiculos, now, sessions>>

\* POST /usuarios/: hashed with auth.get_password_hash, then inserted
criar_usuario(db, username, password, salt) ==
    InsertUsuario(db, username, get_password_hash(password, salt))

CriarUsuarioHandler ==
    /\ HandlerReady("criar_usuario")
    /\ \E salt \in Salts :
         LET r == criar_usuario(users, req.body.username, req.body.password, salt)
         IN /\ r.ok => r.row.id <= MaxId
            /\ users' = r.db
            /\ madeBy' = IF r.ok THEN [madeBy EXCEPT ![req.body.username] = "api"]
                         ELSE madeBy
            /\ fate' = IF r.ok THEN FateAfterInsert(req.body.username) ELSE fate
            /\ req' = [req EXCEPT !.pc = "Done",
                         !.resp = IF r.ok THEN Resp(200, r.row.username)
                                  ELSE Resp(500, "IntegrityError")]
    /\ UNCHANGED <<veiculos, now, wallet, failLog, sessions>>

ReadRootHandler ==
    /\ HandlerReady("read_root")
    /\ req' = [req EXCEPT !.pc = "Done", !.resp = Resp(200, "Bem-vindo")]
    /\ UNCHANGED <<users, madeBy, veiculos, now, wallet, fate, failLog, sessions>>

(* ---------------- the access guard (specification 4.5) ----------------- *)

Unauthenticated ==
    [NoResp EXCEPT !.status = 401, !.detail = "unauthenticated",
                   !.www_authenticate = "Bearer"]

\* the token of an "Authorization: Bearer <token>" header, if that is its form
BearerToken(header) ==
    IF header.scheme = "Bearer" /\ header.token # NoToken
    THEN [ok |-> TRUE, token |-> header.token]
    ELSE [ok |-> FALSE, token |-> NoToken]

Guarded == req.op # "" /\ "get_current_active_user" \in Dependencies(req.op)

Reject(kind) ==
    req' = [req EXCEPT !.pc = "Rejected", !.err = kind, !.resp = Unauthenticated]

\* Unauthenticated -> Parsed: absent or malformed header rejects at once
GuardParse ==
    /\ Guarded
    /\ req.pc = "Received"
    /\ IF BearerToken(req.header).ok
       THEN req' = [req EXCEPT !.pc = "Parsed"]
       ELSE Reject("NotAuthenticated")
    /\ UNCHANGED <<users, madeBy, veiculos, now, wallet, fate, failLog, sessions>>

\* Parsed -> Validated: Token Validator on the token, at the current time
GuardValidate ==
    /\ Guarded
    /\ req.pc = "Parsed"
    /\ LET v == validate(req.header.token, now)
       IN IF v.ok
          THEN req' = [req EXCEPT !.pc = "Validated", !.sub = v.sub, !.vcalls = @ + 1]
          ELSE req' = [req EXCEPT !.pc = "Rejected", !.err = v.err, !.vcalls = @ + 1,
                                  !.resp = Unauthenticated]
    /\ UNCHANGED <<users, madeBy, veiculos, now, wallet, fate, failLog, sessions>>

\* Validated -> Authorized: the subject is looked up again in the store
GuardResolve ==
    /\ Guarded
    /\ req.pc = "Validated"
    /\ LET user == get_usuario_by_username(users, req.sub)
       IN IF user = NoUser
          THEN req' = [req EXCEPT !.pc = "Rejected", !.err = "UnknownSubject",
                                  !.lookups = @ + 1, !.resp = Unauthenticated]
          ELSE req' = [req EXCEPT !.pc = "Authorized", !.sub = user.username,
                                  !.lookups = @ + 1]
    /\ UNCHANGED <<users, madeBy, veiculos, now, wallet, fate, failLog, sessions>>

(* --------------------------- vehicle handlers -------------------------- *)

\* the vehicle table is a set of records keyed by id; what a record holds
\* (nome, modelo, status) plays no part in authentication and is left out
VeiculoIds == 1..MaxVeiculoId

NotFound == Resp(404, "Veiculo nao encontrado")

ListarVeiculos ==
    /\ HandlerReady("listar_veiculos")
    /\ req' = [req EXCEPT !.pc = "Done", !.resp = Resp(200, "veiculos")]
    /\ UNCHANGED <<users, madeBy, veiculos, now, wallet, fate, failLog, sessions>>

CriarVeiculo ==
    /\ HandlerReady("criar_veiculo")
    /\ NextVeiculoId <= MaxVeiculoId
    /\ veiculos' = veiculos \cup {[id |-> NextVeiculoId]}
    /\ req' = [req EXCEPT !.pc = "Done", !.resp = Resp(200, "veiculo")]
    /\ UNCHANGED <<users, madeBy, now, wallet, fate, failLog, sessions>>

ObterVeiculo ==
    /\ HandlerReady("obter_veiculo")
    /\ \E veiculo_id \in VeiculoIds :
         req' = [req EXCEPT !.pc = "Done",
                   !.resp = IF \E v \in veiculos : v.id = veiculo_id
                            THEN Resp(200, "veiculo") ELSE NotFound]
    /\ UNCHANGED <<users, madeBy, veiculos, now, wallet, fate, failLog, sessions>>

AtualizarStatus ==
    /\ HandlerReady("atualizar_status")
    /\ \E veiculo_id \in VeiculoIds :
         req' = [req EXCEPT !.pc = "Done",
                   !.resp = IF \E v \in veiculos : v.id = veiculo_id
                            THEN Resp(200, "veiculo") ELSE NotFound]
    /\ UNCHANGED <<users, madeBy, veiculos, now, wallet, fate, failLog, sessions>>

ExcluirVeiculo ==
    /\ HandlerReady("excluir_veiculo")
    /\ \E veiculo_id \in VeiculoIds :
         IF \E v \in veiculos : v.id = veiculo_id
         THEN /\ veiculos' = {v \in veiculos : v.id # veiculo_id}
              /\ req' = [req EXCEPT !.pc = "Done",
                                    !.resp = Resp(200, "Veiculo excluido com sucesso")]
         ELSE /\ veiculos' = veiculos
              /\ req' = [req EXCEPT !.pc = "Done", !.resp = NotFound]
    /\ UNCHANGED <<users, madeBy, now, wallet, fate, failLog, sessions>>

(* ------------------------------ manage_users --------------------------- *)

\* python manage_users.py create [--username U] [--password P]
CliCreate(passwords, salts) ==
    /\ \E username \in Usernames \cup {NoArg}, password \in passwords, salt \in salts :
         IF username = NoArg \/ password = NoArg
         THEN /\ UNCHANGED <<users, madeBy, fate>>
              /\ sessions' = MainLeaves(FALSE)
         ELSE LET r == create_usuario(users, username, password, salt)
              IN /\ r.ok => r.row.id <= MaxId
                 /\ sessions' = MainLeaves(r.ok)
                 /\ users' = r.db
                 /\ madeBy' = IF r.ok THEN [madeBy EXCEPT ![username] = "manage_users"]
                              ELSE madeBy
                 /\ fate' = IF r.ok THEN FateAfterInsert(username) ELSE fate
    /\ UNCHANGED <<veiculos, now, wallet, req, failLog>>

\* python manage_users.py list: prints every row, changes nothing
CliList ==
    /\ \A usuario \in users : usuario.id > 0 /\ usuario.username # ""
    /\ sessions' = MainLeaves(TRUE)
    /\ UNCHANGED <<users, madeBy, veiculos, now, wallet, fate, req, failLog>>

\* python manage_users.py delete [--username U]
CliDelete ==
    /\ \E username \in Usernames \cup {NoArg} :
         IF username = NoArg
         THEN /\ UNCHANGED <<users, madeBy, fate>>
              /\ sessions' = MainLeaves(FALSE)
         ELSE LET usuario == get_usuario_by_username(users, username)
              IN /\ sessions' = MainLeaves(TRUE)
                 /\ IF usuario # NoUser
                    THEN /\ users' = delete_usuario(users, usuario.id)
                         /\ madeBy' = [u \in Usernames |->
                                         IF \E r \in users' : r.username = u
                                         THEN madeBy[u] ELSE ""]
                         /\ fate' = FateAfterDelete(username)
                    ELSE UNCHANGED <<users, madeBy, fate>>
    /\ UNCHANGED <<veiculos, now, wallet, req, failLog>>

(* ---------------------------- specifications --------------------------- *)

\* registration, deletion and login: every password and salt, at one instant
Next ==
    \/ NewFormRequest({"login_for_access_token", "criar_usuario"}, Passwords)
    \/ Deliver
    \/ LoginHandler
    \/ CriarUsuarioHandler
    \/ CliCreate(Passwords \cup {NoArg}, Salts)
    \/ CliList
    \/ CliDelete

Spec == Init /\ [][Next]_vars

\* the access guard in front of the /veiculos handlers, while users come and
\* go and time passes; users are registered and deleted by manage_users, all
\* with the same password and salt, which the guard never reads
GuardHeaders ==
    {NoHeader, [scheme |-> "Basic", token |-> NoToken], Bearer(Garbage)}
    \cup (IF wallet = NoToken THEN {} ELSE {Bearer(wallet)})

NextGuard ==
    \/ Tick
    \/ NewVehicleRequest(VehicleOps, GuardHeaders)
    \/ NewFormRequest({"login_for_access_token"}, {"s3cret"})
    \/ NewRootRequest
    \/ Deliver
    \/ LoginHandler
    \/ ReadRootHandler
    \/ GuardParse
    \/ GuardValidate
    \/ GuardResolve
    \/ ListarVeiculos
    \/ CriarVeiculo
    \/ ObterVeiculo
    \/ AtualizarStatus
    \/ ExcluirVeiculo
    \/ CliCreate({"s3cret"}, {"saltA"})
    \/ CliDelete

SpecGuard == Init /\ [][NextGuard]_vars

\* the tokens a client can present, genuine, altered and forged, against the
\* validator at every time; both users are registered and stay so
InitToken ==
    /\ users = {[id |-> 1, username |-> "alice",
                 hashed_password |-> CryptHash(crud_pwd_context, "s3cret", "saltA")],
                [id |-> 2, username |-> "bob",
                 hashed_password |-> CryptHash(crud_pwd_context, "s3cret", "saltA")]}
    /\ madeBy = [u \in Usernames |-> "manage_users"]
    /\ veiculos = {}
    /\ now = 0
    /\ wallet = NoToken
    /\ fate = "none"
    /\ req = IdleReq
    /\ failLog = {}
    /\ sessions = NoSessions

NextToken ==
    \/ Tick
    \/ NewVehicleRequest({"listar_veiculos"}, ClientHeaders)
    \/ NewFormRequest({"login_for_access_token"}, {"s3cret"})
    \/ Deliver
    \/ LoginHandler
    \/ GuardParse
    \/ GuardValidate
    \/ GuardResolve
    \/ ListarVeiculos

SpecToken == InitToken /\ [][NextToken]_vars

(* -------------------------------- claims ------------------------------- *)

\* the steps of a request, as seen across one transition
ValidatorStep == req'.vcalls = req.vcalls + 1
LookupStep == req'.lookups = req.lookups + 1
HandlerStep(ops) == req.pc # "Done" /\ req'.pc = "Done" /\ req'.op \in ops
StoredNames == {u.username : u \in users}

\* C1: a protected vehicle operation runs, and the vehicle table changes, only
\* in a step of a /veiculos request that is in the Authorized state, having had
\* its Bearer header accepted, its token validated once and its subject looked
\* up once in the store, with no failure recorded.
C1_ProtectedOnlyWhenAuthorized ==
    [][(HandlerStep(VehicleOps) \/ veiculos' # veiculos)
         => /\ req.op \in VehicleOps
            /\ req'.op = req.op
            /\ req.pc = "Authorized"
            /\ BearerToken(req.header).ok
            /\ req.vcalls = 1
            /\ req.lookups = 1
            /\ req.sub \in Usernames
            /\ req.err = ""]_vars

\* C1 witness: an authorized request has deleted a vehicle
C1_Witness ==
    /\ req.op = "excluir_veiculo"
    /\ req.pc = "Done"
    /\ req.resp.status = 200
    /\ req.lookups = 1

\* C2: when the validator is applied at time now to the token that login
\* issued at t0 for subject s, the request is validated as s if and only if
\* now < t0 + TTL and is rejected as Expired otherwise, TTL being
\* ACCESS_TOKEN_EXPIRE_MINUTES.
C2_ValidIffBeforeExpiry ==
    [][(ValidatorStep /\ wallet # NoToken /\ req.header.token = wallet)
         => IF now < wallet.claims.iat + ACCESS_TOKEN_EXPIRE_MINUTES
            THEN req'.pc = "Validated" /\ req'.sub = wallet.claims.sub
            ELSE req'.pc = "Rejected" /\ req'.err = "Expired"]_vars

\* C2 witness: the issued token was rejected as Expired exactly at t0 + TTL
C2_Witness ==
    /\ wallet # NoToken
    /\ req.header.token = wallet
    /\ req.pc = "Rejected"
    /\ req.err = "Expired"
    /\ now = wallet.claims.iat + ACCESS_TOKEN_EXPIRE_MINUTES

\* C5: when the validator is applied to a minted token whose subject,
\* issued_at or expires_at was changed and whose signature was kept, the
\* request is rejected with BadSignature; and a request is only ever validated
\* as the subject the minted token was issued for.
C5_TamperedClaimsRejected ==
    [][ValidatorStep
         => /\ (wallet # NoToken /\ req.header.token \in TamperedClaims(wallet))
                 => (req'.pc = "Rejected" /\ req'.err = "BadSignature")
            /\ req'.pc = "Validated"
                 => (wallet # NoToken /\ req'.sub = wallet.claims.sub)]_vars

\* C5 witness: a token altered to name the other user was rejected with BadSignature
C5_Witness ==
    /\ wallet # NoToken
    /\ req.header.token \in TamperedClaims(wallet)
    /\ req.header.token.claims.sub # wallet.claims.sub
    /\ req.pc = "Rejected"
    /\ req.err = "BadSignature"

\* C6: the validator reports the first failing check in the order parse,
\* signature, expiry: an unparseable token is Malformed, a parseable token
\* whose signature does not verify is BadSignature even when it has expired,
\* and Expired is reported only for a token whose signature verifies.
C6_FirstFailureInOrder ==
    [][ValidatorStep
         => LET token == req.header.token
                verifies == token.sig.key = SECRET_KEY /\ token.sig.over = token.claims
            IN /\ token.parts # 3 => (req'.pc = "Rejected" /\ req'.err = "Malformed")
               /\ (token.parts = 3 /\ ~verifies)
                    => (req'.pc = "Rejected" /\ req'.err = "BadSignature")
               /\ req'.err = "Expired"
                    => (token.parts = 3 /\ verifies /\ now >= token.claims.exp)]_vars

\* C6 witness: a token both expired and badly signed was reported as BadSignature
C6_Witness ==
    /\ req.pc = "Rejected"
    /\ req.err = "BadSignature"
    /\ req.vcalls = 1
    /\ req.header.token.parts = 3
    /\ now >= req.header.token.claims.exp
    /\ req.header.token.claims.exp > 0

\* C3 as stated: once the user a token names has been deleted after the token
\* was issued, every later subject lookup for that token rejects the request.
C3_RejectedAfterDeletion_AsStated ==
    [][(LookupStep /\ wallet # NoToken /\ req.sub = wallet.claims.sub
          /\ fate \in {"deleted", "recreated"})
         => (req'.pc = "Rejected" /\ req'.resp = Unauthenticated)]_vars

\* C3 amended: once the user a token names has been deleted after the token
\* was issued, and no user has been registered under that username since,
\* every subject lookup for that token rejects the request as unauthenticated
\* (UnknownSubject) and a rejected request never reaches its handler; while
\* the validator, which is given no store, still returns the subject for the
\* unexpired token.
C3_RejectedAfterDeletion ==
    /\ [][(LookupStep /\ wallet # NoToken /\ req.sub = wallet.claims.sub
             /\ fate = "deleted")
            => /\ req'.pc = "Rejected"
               /\ req'.err = "UnknownSubject"
               /\ req'.resp = Unauthenticated]_vars
    /\ [][req.pc = "Rejected" => req'.pc \in {"Rejected", "Idle"}]_vars
    /\ []((wallet # NoToken /\ fate = "deleted" /\ now < wallet.claims.exp)
            => validate(wallet, now) = ValidateOk(wallet.claims.sub))

\* C3 witness: the request of a deleted user was rejected at the lookup while
\* its token was still unexpired
C3_Witness ==
    /\ fate = "deleted"
    /\ req.header.token = wallet
    /\ req.pc = "Rejected"
    /\ req.err = "UnknownSubject"
    /\ now < wallet.claims.exp
    /\ validate(wallet, now).ok

\* C7: a guarded request moves only Received (unauthenticated) -> Parsed ->
\* Validated -> Authorized; the validator is invoked only for a request in
\* Parsed whose header has the form Bearer <token>, the store is looked up
\* only for a request in Validated, and a rejected request takes no further
\* step but the end of the request.
C7_GuardOrder ==
    [][(req.op \in VehicleOps /\ req' # req)
         => /\ req.pc = "Received" => req'.pc \in {"Parsed", "Rejected"}
            /\ req.pc = "Parsed" => req'.pc \in {"Validated", "Rejected"}
            /\ req.pc = "Validated" => req'.pc \in {"Authorized", "Rejected"}
            /\ req.pc = "Authorized" => req'.pc = "Done"
            /\ req.pc \in {"Rejected", "Done"} => req' = IdleReq
            /\ req'.pc # "Idle" =>
                 /\ req'.vcalls \in {req.vcalls, req.vcalls + 1}
                 /\ req'.lookups \in {req.lookups, req.lookups + 1}
            /\ ValidatorStep =>
                 /\ req.pc = "Parsed"
                 /\ req.header.scheme = "Bearer"
                 /\ req.header.token # NoToken
            /\ LookupStep => (req.pc = "Validated" /\ req.vcalls = 1)]_vars

\* C7 witness: a request without a Bearer header was rejected and the
\* validator was not invoked
C7_Witness ==
    /\ req.op \in VehicleOps
    /\ req.pc = "Rejected"
    /\ req.header.scheme # "Bearer"
    /\ req.vcalls = 0
    /\ req.lookups = 0

\* C4: a login refused because the username is absent and a login refused
\* because the password is wrong give the caller the same outcome: the same
\* status, message and WWW-Authenticate hint, and no token in either.
C4_SameFailureOutcome ==
    \A a \in failLog, b \in failLog :
        (a.cause = "absent" /\ b.cause = "wrong_password")
          => /\ a.resp.status = b.resp.status
             /\ a.resp.detail = b.resp.detail
             /\ a.resp.www_authenticate = b.resp.www_authenticate
             /\ a.resp.status = 401
             /\ a.resp.access_token = NoToken
             /\ b.resp.access_token = NoToken
             /\ a.resp.token_type = b.resp.token_type

\* C4 witness: both kinds of refused login have happened
C4_Witness ==
    /\ \E a \in failLog : a.cause = "absent"
    /\ \E b \in failLog : b.cause = "wrong_password"

\* C8: the store never holds two rows with one username; no step adds or
\* alters a row under a username that is already in the store; and a
\* POST /usuarios/ for a username already present fails and leaves the store
\* as it was.
C8_UsernameUnique ==
    /\ [](\A a \in users, b \in users : a.username = b.username => a = b)
    /\ [][\A r \in users' : r.username \in StoredNames => r \in users]_vars
    /\ [][(HandlerStep({"criar_usuario"}) /\ req.body.username \in StoredNames)
            => (users' = users /\ req'.resp.status = 500)]_vars

\* C8 witness: a registration for a username already in the store has failed
C8_Witness ==
    /\ req.op = "criar_usuario"
    /\ req.pc = "Done"
    /\ req.resp.status = 500
    /\ req.body.username \in StoredNames

\* C9: a login step returns a token only if, in the store as it is at that
\* step, a user has the submitted username and the hasher verifies the
\* submitted password against that user's digest; the token's subject is the
\* stored username and token_type is bearer; otherwise no token is returned;
\* and the step leaves the store as it was.
C9_LoginTokenOnlyForVerifiedUser ==
    [][HandlerStep({"login_for_access_token"})
         => /\ users' = users
            /\ IF req'.resp.access_token # NoToken
               THEN /\ \E u \in users :
                         /\ u.username = req.body.username
                         /\ u.hashed_password.pw = req.body.password
                         /\ verify_password(req.body.password, u.hashed_password)
                         /\ req'.resp.access_token.claims.sub = u.username
                    /\ req'.resp.status = 200
                    /\ req'.resp.token_type = "bearer"
               ELSE req'.resp.status # 200]_vars

\* C9 witness: a login has returned a bearer token for a stored user
C9_Witness ==
    /\ req.op = "login_for_access_token"
    /\ req.pc = "Done"
    /\ req.resp.token_type = "bearer"
    /\ req.resp.access_token.claims.sub = req.body.username
    /\ req.body.username \in StoredNames

\* two stores hold the same users if they agree on ids and usernames and on
\* which passwords each user's digest verifies
EquivalentStores(A, B) ==
    /\ {[id |-> u.id, username |-> u.username] : u \in A}
         = {[id |-> u.id, username |-> u.username] : u \in B}
    /\ \A a \in A, b \in B :
         a.username = b.username
           => \A q \in Passwords :
                verify_password(q, a.hashed_password) = verify_password(q, b.hashed_password)

LoginSucceeds(db, username, password) ==
    login_for_access_token(db, username, password, now).status = 200

RequestSessionClosed == req.pc = "Idle" => sessions.api # "open"

\* the session manage_users.main opened is closed when main has returned
MainSessionClosed == sessions.cli # "open"

\* C11: every database session that is opened is closed: the one opened by
\* manage_users.main before main returns, on every path (create without
\* --username or --password, delete without --username and a create that
\* raises included), and the one get_db yields when the request ends.
\* The code returns at lines 20 and 33 of manage_users.py, and raises out of
\* line 22, without reaching db.close() at line 41.
C11_EverySessionClosed == MainSessionClosed /\ RequestSessionClosed

====
